---- MODULE Spec2Model ----
(***************************************************************************)
(* A model of src/inventory_system.py: the inventory mapping (a Python     *)
(* dict, kept in insertion order), the audit log list, the JSON file the   *)
(* inventory is saved to and loaded from, and the demo run of main().      *)
(*                                                                         *)
(* Four specifications share the variables:                                *)
(*   Spec      add_item / remove_item / get_qty / check_low_items called   *)
(*             in any order with any arguments on an inventory that starts *)
(*             empty, without a log list (as main() calls them);           *)
(*   LogSpec   add_item called with and without the caller's log list;     *)
(*   FileSpec  the same inventory together with save_data / load_data and  *)
(*             a file that the environment may damage;                     *)
(*   MainSpec  main() run repeatedly on the default file.                  *)
(***************************************************************************)
EXTENDS Integers, Sequences, FiniteSets, TLC

VARIABLES
    stock,      \* the inventory dict: a sequence of [k, v] entries, keys unique
    logs,       \* the caller's audit log list
    file,       \* the state of the file "inventory.json"
    call,       \* the last call made: [op, item, qty]
    outcome,    \* how the last call ended: "ok" or the exception it raised
    result,     \* what the last call returned
    pc,         \* main()'s position ("idle" outside MainSpec)
    runs,       \* number of completed runs of main()
    pre,        \* history: the inventory and the log list as the last call found them
    added       \* history: per item, the sum of the successful adds since it was absent

vars == <<stock, logs, file, call, outcome, result, pc, runs, pre, added>>

----------------------------------------------------------------------------
(* Bounds *)

MaxQty == 3         \* largest quantity an entry reaches in Spec and LogSpec
MaxUnits == 1       \* largest quantity an entry reaches in FileSpec, in units of QtyStep
QtyStep == 10       \* FileSpec adds and removes multiples of this, so that numbers take two digits
MaxLogs == 1        \* longest audit log list
MaxFileQty == 6     \* largest quantity in a file main() starts from
MaxRuns == 2        \* restarts of main()

----------------------------------------------------------------------------
(* Python values that reach the functions as arguments *)

PyStr(s) == [type |-> "str", repr |-> s]
PyKey(n) == [type |-> "int", repr |-> n]      \* a non-string item such as 123

PyInt(n) == [type |-> "int", val |-> n]
PyTrue == [type |-> "bool", val |-> 1]        \* True: an int instance, worth 1
PyTen == [type |-> "str", val |-> 0]          \* the string "ten"
PyFloat == [type |-> "float", val |-> 1]      \* the float 1.0

ItemNames == {"apple", "banana"}
ItemInputs == {PyStr(n) : n \in ItemNames} \cup {PyStr(""), PyKey("123")}
QtyInputs == {PyInt(n) : n \in -1 .. MaxQty} \cup {PyTrue, PyTen, PyFloat}
Thresholds == -1 .. MaxQty + 1

\* isinstance(qty, int): bool is a subclass of int
IsInstanceInt(qty) == qty.type \in {"int", "bool"}

----------------------------------------------------------------------------
(* The dict: insertion-ordered entries with unique keys *)

EmptyDict == << >>

DictKeys(d) == {d[i].k : i \in 1 .. Len(d)}

\* item in d (only strings are ever keys of the inventory)
DictHas(d, item) == item.type = "str" /\ item.repr \in DictKeys(d)

DictIndex(d, key) == CHOOSE i \in 1 .. Len(d) : d[i].k = key

\* d.get(item, default)
DictGet(d, item, default) ==
    IF DictHas(d, item) THEN d[DictIndex(d, item.repr)].v ELSE default

\* d[key] = v: an existing key keeps its position, a new key goes last
DictSet(d, key, v) ==
    IF key \in DictKeys(d)
    THEN [d EXCEPT ![DictIndex(d, key)].v = v]
    ELSE Append(d, [k |-> key, v |-> v])

\* del d[key]
DictDel(d, key) ==
    LET i == DictIndex(d, key)
    IN  SubSeq(d, 1, i - 1) \o SubSeq(d, i + 1, Len(d))

\* the mapping a dict denotes, for comparing dicts regardless of order
DictMap(d) == {<<d[i].k, d[i].v>> : i \in 1 .. Len(d)}

----------------------------------------------------------------------------
(* add_item, remove_item, get_qty, check_low_items *)

NoLogs == [isNone |-> TRUE, list |-> << >>]
LogList(l) == [isNone |-> FALSE, list |-> l]

\* f"{datetime.now()}: Added {qty} of {item}" (the timestamp prefix is left out)
LogMessage(item, qty) == [added |-> qty, of |-> item.repr]

\* the validation without the check for a negative quantity
AddItemInvalid_NoSignCheck(item, qty) ==
    \/ item.type # "str" \/ item.repr = ""
    \/ ~IsInstanceInt(qty)

AddItemInvalid(item, qty) ==
    \/ item.type # "str" \/ item.repr = ""
    \/ ~IsInstanceInt(qty)
    \/ qty.val < 0

\* add_item storing the quantity given instead of adding it to the one stored
add_item_Overwrite(stock_data, item, qty, logsArg) ==
    LET l == IF logsArg.isNone THEN << >> ELSE logsArg.list
    IN  IF AddItemInvalid(item, qty)
        THEN [exc |-> "ValueError", stock_data |-> stock_data, logs |-> l]
        ELSE [exc |-> "none",
              stock_data |-> DictSet(stock_data, item.repr, qty.val),
              logs |-> Append(l, LogMessage(item, qty))]

\* returns the exception raised, the dict and the log list after the call
add_item(stock_data, item, qty, logsArg) ==
    LET l == IF logsArg.isNone THEN << >> ELSE logsArg.list
    IN  IF AddItemInvalid(item, qty)
        THEN [exc |-> "ValueError", stock_data |-> stock_data, logs |-> l]
        ELSE [exc |-> "none",
              stock_data |-> DictSet(stock_data, item.repr,
                                     DictGet(stock_data, item, 0) + qty.val),
              logs |-> Append(l, LogMessage(item, qty))]

\* the validation without the check for a negative quantity
RemoveQtyInvalid_NoSignCheck(qty) == ~IsInstanceInt(qty)

RemoveQtyInvalid(qty) == ~IsInstanceInt(qty) \/ qty.val < 0

\* remove_item deleting the entry only when the difference is negative
remove_item_StrictlyBelow(stock_data, item, qty) ==
    IF RemoveQtyInvalid(qty)
    THEN [exc |-> "none", stock_data |-> stock_data]
    ELSE IF ~DictHas(stock_data, item)
    THEN [exc |-> "none", stock_data |-> stock_data]
    ELSE LET current_qty == DictGet(stock_data, item, 0)
         IN  IF current_qty - qty.val < 0
             THEN [exc |-> "none", stock_data |-> DictDel(stock_data, item.repr)]
             ELSE [exc |-> "none",
                   stock_data |-> DictSet(stock_data, item.repr, current_qty - qty.val)]

\* remove_item without the except clause: the KeyError reaches the caller
remove_item_NoExcept(stock_data, item, qty) ==
    IF RemoveQtyInvalid(qty)
    THEN [exc |-> "none", stock_data |-> stock_data]
    ELSE IF ~DictHas(stock_data, item)
    THEN [exc |-> "KeyError", stock_data |-> stock_data]
    ELSE LET current_qty == DictGet(stock_data, item, 0)
         IN  IF current_qty - qty.val <= 0
             THEN [exc |-> "none", stock_data |-> DictDel(stock_data, item.repr)]
             ELSE [exc |-> "none",
                   stock_data |-> DictSet(stock_data, item.repr, current_qty - qty.val)]

remove_item(stock_data, item, qty) ==
    IF RemoveQtyInvalid(qty)
    THEN [exc |-> "none", stock_data |-> stock_data]
    ELSE IF ~DictHas(stock_data, item)
    THEN [exc |-> "none", stock_data |-> stock_data]      \* KeyError, caught
    ELSE LET current_qty == DictGet(stock_data, item, 0)
         IN  IF current_qty - qty.val <= 0
             THEN [exc |-> "none", stock_data |-> DictDel(stock_data, item.repr)]
             ELSE [exc |-> "none",
                   stock_data |-> DictSet(stock_data, item.repr, current_qty - qty.val)]

get_qty(stock_data, item) == DictGet(stock_data, item, 0)

\* the comparison with the threshold included
IsLow_Inclusive(entry, threshold) == entry.v <= threshold

IsLow(entry, threshold) == entry.v < threshold

check_low_items(stock_data, threshold) ==
    LET low == SelectSeq(stock_data, LAMBDA e : IsLow(e, threshold))
    IN  [i \in 1 .. Len(low) |-> low[i].k]

----------------------------------------------------------------------------
(* JSON text: a sequence of tokens [t, s] *)

Tok(t, s) == [t |-> t, s |-> s]
LBrace == Tok("punct", "{")
RBrace == Tok("punct", "}")
Colon == Tok("punct", ":")
Comma == Tok("punct", ",")
Minus == Tok("punct", "-")
Ws == Tok("ws", "\n")                   \* a newline and its indentation
JsonStr(key) == Tok("str", key)         \* a quoted, escaped string

DigitChar == <<"0", "1", "2", "3", "4", "5", "6", "7", "8", "9">>
Digit(n) == Tok("digit", DigitChar[n + 1])
DigitOf(tok) == (CHOOSE i \in 1 .. 10 : DigitChar[i] = tok.s) - 1

\* the digits written least significant first
RECURSIVE NatDigits_Reversed(_)
NatDigits_Reversed(n) ==
    IF n < 10 THEN <<Digit(n)>> ELSE <<Digit(n % 10)>> \o NatDigits_Reversed(n \div 10)

RECURSIVE NatDigits(_)
NatDigits(n) ==
    IF n < 10 THEN <<Digit(n)>> ELSE NatDigits(n \div 10) \o <<Digit(n % 10)>>

\* how json writes an int
IntDigits(n) == IF n < 0 THEN <<Minus>> \o NatDigits(-n) ELSE NatDigits(n)

RECURSIVE JsonMembers(_, _)
JsonMembers(d, i) ==
    IF i > Len(d) THEN << >>
    ELSE <<Ws, JsonStr(d[i].k), Colon>> \o IntDigits(d[i].v)
         \o (IF i < Len(d) THEN <<Comma>> ELSE << >>)
         \o JsonMembers(d, i + 1)

\* json.dump(stock_data, f, indent=4): the text written
json_dump(d) ==
    IF Len(d) = 0 THEN <<LBrace, RBrace>>
    ELSE <<LBrace>> \o JsonMembers(d, 1) \o <<Ws, RBrace>>

JsonError == [ok |-> FALSE, data |-> EmptyDict]

RECURSIVE SkipWs(_, _)
SkipWs(text, i) ==
    IF i <= Len(text) /\ text[i].t = "ws" THEN SkipWs(text, i + 1) ELSE i

At(text, i, tok) == i <= Len(text) /\ text[i] = tok
IsDigitAt(text, i) == i <= Len(text) /\ text[i].t = "digit"

RECURSIVE DigitsEnd(_, _)
DigitsEnd(text, i) == IF IsDigitAt(text, i) THEN DigitsEnd(text, i + 1) ELSE i

RECURSIVE DigitsVal(_, _, _)
DigitsVal(text, i, j) ==
    IF i >= j THEN 0 ELSE DigitsVal(text, i, j - 1) * 10 + DigitOf(text[j - 1])

\* a JSON integer at position i: -?(0|[1-9][0-9]*)
ParseInt(text, i) ==
    LET neg == At(text, i, Minus)
        s == IF neg THEN i + 1 ELSE i
        e == IF At(text, s, Digit(0)) THEN s + 1 ELSE DigitsEnd(text, s)
        n == DigitsVal(text, s, e)
    IN  IF e = s THEN [ok |-> FALSE, val |-> 0, next |-> i]
        ELSE [ok |-> TRUE, val |-> IF neg THEN -n ELSE n, next |-> e]

\* the members of an object from position i (a key is expected there);
\* a repeated key keeps its first position and takes the last value
RECURSIVE ParseMembers(_, _, _)
ParseMembers(text, i, acc) ==
    IF ~(i <= Len(text) /\ text[i].t = "str") THEN [ok |-> FALSE, data |-> acc, next |-> i]
    ELSE LET c == SkipWs(text, i + 1) IN
         IF ~At(text, c, Colon) THEN [ok |-> FALSE, data |-> acc, next |-> c]
         ELSE LET num == ParseInt(text, SkipWs(text, c + 1)) IN
              IF ~num.ok THEN [ok |-> FALSE, data |-> acc, next |-> c]
              ELSE LET acc2 == DictSet(acc, text[i].s, num.val)
                       e == SkipWs(text, num.next)
                   IN  IF At(text, e, RBrace) THEN [ok |-> TRUE, data |-> acc2, next |-> e + 1]
                       ELSE IF At(text, e, Comma)
                       THEN ParseMembers(text, SkipWs(text, e + 1), acc2)
                       ELSE [ok |-> FALSE, data |-> acc2, next |-> e]

\* json.load(f) on a text holding an object of integers: ok is FALSE where
\* json raises JSONDecodeError
json_load(text) ==
    LET b == SkipWs(text, 1) IN
    IF ~At(text, b, LBrace) THEN JsonError
    ELSE LET m == SkipWs(text, b + 1)
             obj == IF At(text, m, RBrace)
                    THEN [ok |-> TRUE, data |-> EmptyDict, next |-> m + 1]
                    ELSE ParseMembers(text, m, EmptyDict)
         IN  IF obj.ok /\ SkipWs(text, obj.next) = Len(text) + 1
             THEN [ok |-> TRUE, data |-> obj.data]
             ELSE JsonError

----------------------------------------------------------------------------
(* The file and load_data / save_data *)

MissingFile == [kind |-> "missing", text |-> << >>]       \* no such file
UnreadableFile == [kind |-> "unreadable", text |-> << >>] \* open() raises an OSError
UndecodableFile == [kind |-> "undecodable", text |-> << >>] \* bytes that are not UTF-8
TextFile(text) == [kind |-> "text", text |-> text]

load_data(f) ==
    CASE f.kind = "missing" -> [exc |-> "none", data |-> EmptyDict]      \* FileNotFoundError
      [] f.kind = "unreadable" -> [exc |-> "none", data |-> EmptyDict]   \* IOError
      [] f.kind = "undecodable" -> [exc |-> "UnicodeDecodeError", data |-> EmptyDict]
      [] f.kind = "text" ->
            LET r == json_load(f.text)
            IN  IF r.ok THEN [exc |-> "none", data |-> r.data]
                ELSE [exc |-> "none", data |-> EmptyDict]                \* JSONDecodeError

\* what the environment does to a save: nothing, open() fails, or the write
\* fails after n tokens reached the file
NoFault == [at |-> "none", n |-> 0]
OpenFault == [at |-> "open", n |-> 0]
WriteFault(n) == [at |-> "write", n |-> n]
SaveFaults(stock_data) ==
    {NoFault, OpenFault} \cup {WriteFault(n) : n \in 0 .. Len(json_dump(stock_data)) - 1}

save_data(stock_data, f, fault) ==
    CASE fault.at = "none" -> [exc |-> "none", file |-> TextFile(json_dump(stock_data))]
      [] fault.at = "open" -> [exc |-> "none", file |-> f]
      [] fault.at = "write" ->
            [exc |-> "none", file |-> TextFile(SubSeq(json_dump(stock_data), 1, fault.n))]

----------------------------------------------------------------------------
(* Calls and what is recorded of them *)

NoItem == [type |-> "none", repr |-> ""]
NoQty == [type |-> "none", val |-> 0]
Call(op, item, qty, passLogs, fault) ==
    [op |-> op, item |-> item, qty |-> qty, logs |-> passLogs, fault |-> fault]

None == [kind |-> "None", val |-> << >>]
Returned(kind, val) == [kind |-> kind, val |-> val]
Outcome(exc) == IF exc = "none" THEN "ok" ELSE exc

Snapshot == [stock |-> stock, logs |-> logs]

\* the history of adds: an absent item starts a new sum, a successful add on
\* the item extends it, a remove_item call on an item still present ends it
Track(after, op, item, qty, ok) ==
    [k \in ItemNames |->
        IF k \notin DictKeys(after) THEN [tracking |-> TRUE, total |-> 0]
        ELSE IF item.type = "str" /\ item.repr = k /\ op = "remove_item"
        THEN [tracking |-> FALSE, total |-> 0]
        ELSE IF item.type = "str" /\ item.repr = k /\ op = "add_item" /\ ok
                /\ added[k].tracking
        THEN [tracking |-> TRUE, total |-> added[k].total + qty.val]
        ELSE added[k]]

Untracked(d) ==
    [k \in ItemNames |-> [tracking |-> k \notin DictKeys(d), total |-> 0]]

----------------------------------------------------------------------------
(* The functions called in any order: Spec *)

Init ==
    /\ stock = EmptyDict
    /\ logs = << >>
    /\ file = MissingFile
    /\ call = Call("none", NoItem, NoQty, FALSE, NoFault)
    /\ outcome = "ok"
    /\ result = None
    /\ pc = "idle"
    /\ runs = 0
    /\ pre = Snapshot
    /\ added = Untracked(EmptyDict)

\* add_item(stock, item, qty, logs) or add_item(stock, item, qty); cap bounds
\* the quantity an entry may reach
AddItem(item, qty, passLogs, cap) ==
    LET r == add_item(stock, item, qty, IF passLogs THEN LogList(logs) ELSE NoLogs)
    IN  /\ pc = "idle"
        /\ Len(r.logs) <= MaxLogs
        /\ \A i \in 1 .. Len(r.stock_data) : r.stock_data[i].v <= cap
        /\ stock' = r.stock_data
        /\ logs' = IF passLogs THEN r.logs ELSE logs
        /\ call' = Call("add_item", item, qty, passLogs, NoFault)
        /\ outcome' = Outcome(r.exc)
        /\ result' = None
        /\ pre' = Snapshot
        /\ added' = Track(r.stock_data, "add_item", item, qty, r.exc = "none")
        /\ UNCHANGED <<file, pc, runs>>

RemoveItem(item, qty) ==
    LET r == remove_item(stock, item, qty)
    IN  /\ pc = "idle"
        /\ stock' = r.stock_data
        /\ call' = Call("remove_item", item, qty, FALSE, NoFault)
        /\ outcome' = Outcome(r.exc)
        /\ result' = None
        /\ pre' = Snapshot
        /\ added' = Track(r.stock_data, "remove_item", item, qty, r.exc = "none")
        /\ UNCHANGED <<logs, file, pc, runs>>

GetQty(item) ==
    /\ pc = "idle"
    /\ call' = Call("get_qty", item, NoQty, FALSE, NoFault)
    /\ outcome' = "ok"
    /\ result' = Returned("int", get_qty(stock, item))
    /\ pre' = Snapshot
    /\ UNCHANGED <<stock, logs, file, pc, runs, added>>

CheckLowItems(threshold) ==
    /\ pc = "idle"
    /\ call' = Call("check_low_items", NoItem, PyInt(threshold), FALSE, NoFault)
    /\ outcome' = "ok"
    /\ result' = Returned("list", check_low_items(stock, threshold))
    /\ pre' = Snapshot
    /\ UNCHANGED <<stock, logs, file, pc, runs, added>>

Next ==
    \/ \E item \in ItemInputs, qty \in QtyInputs : AddItem(item, qty, FALSE, MaxQty)
    \/ \E item \in ItemInputs, qty \in QtyInputs : RemoveItem(item, qty)
    \/ \E item \in ItemInputs : GetQty(item)
    \/ \E threshold \in Thresholds : CheckLowItems(threshold)

Spec == Init /\ [][Next]_vars

----------------------------------------------------------------------------
(* add_item with the caller's log list: LogSpec *)

LogQtyInputs == {PyInt(-1), PyInt(1), PyTen, PyFloat}

LogNext ==
    \/ \E item \in ItemInputs, qty \in LogQtyInputs, passLogs \in BOOLEAN :
          AddItem(item, qty, passLogs, MaxQty)
    \/ \E item \in ItemInputs : RemoveItem(item, PyInt(1))

LogSpec == Init /\ [][LogNext]_vars

----------------------------------------------------------------------------
(* save_data and load_data: FileSpec *)

FileItemInputs == {PyStr(n) : n \in ItemNames}
FileQtyInputs == {PyInt(0), PyInt(QtyStep)}

SaveData(fault) ==
    LET r == save_data(stock, file, fault)
    IN  /\ pc = "idle"
        /\ file' = r.file
        /\ call' = Call("save_data", NoItem, NoQty, FALSE, fault)
        /\ outcome' = Outcome(r.exc)
        /\ result' = None
        /\ pre' = Snapshot
        /\ UNCHANGED <<stock, logs, pc, runs, added>>

LoadData ==
    LET r == load_data(file)
    IN  /\ pc = "idle"
        /\ call' = Call("load_data", NoItem, NoQty, FALSE, NoFault)
        /\ outcome' = Outcome(r.exc)
        /\ result' = IF r.exc = "none" THEN Returned("dict", r.data) ELSE None
        /\ pre' = Snapshot
        /\ UNCHANGED <<stock, logs, file, pc, runs, added>>

\* the file is removed, made unreadable or overwritten with bytes that are not text
Damage(f) ==
    /\ pc = "idle"
    /\ file' = f
    /\ call' = Call("none", NoItem, NoQty, FALSE, NoFault)
    /\ outcome' = "ok"
    /\ result' = None
    /\ pre' = Snapshot
    /\ UNCHANGED <<stock, logs, pc, runs, added>>

FileNext ==
    \/ \E item \in FileItemInputs, qty \in FileQtyInputs :
          AddItem(item, qty, FALSE, MaxUnits * QtyStep)
    \/ \E item \in FileItemInputs : RemoveItem(item, PyInt(QtyStep))
    \/ \E fault \in SaveFaults(stock) : SaveData(fault)
    \/ LoadData
    \/ \E f \in {MissingFile, UnreadableFile, UndecodableFile} : Damage(f)

FileSpec == Init /\ [][FileNext]_vars

----------------------------------------------------------------------------
(* main(), run again and again on the file it saved: MainSpec *)

\* the inventories a file may hold when main() first runs
FileQtys == -1 .. MaxFileQty
Entries == [k : ItemNames, v : FileQtys]
FileDicts ==
    {EmptyDict} \cup {<<e>> : e \in Entries}
    \cup {<<p[1], p[2]>> : p \in {q \in Entries \X Entries : q[1].k # q[2].k}}

MainFiles ==
    {MissingFile, UnreadableFile, UndecodableFile}
    \cup {TextFile(json_dump(d)) : d \in FileDicts}

MainInit ==
    /\ stock = EmptyDict
    /\ logs = << >>
    /\ file \in MainFiles
    /\ call = Call("none", NoItem, NoQty, FALSE, NoFault)
    /\ outcome = "ok"
    /\ result = None
    /\ pc = "load"
    /\ runs = 0
    /\ pre = Snapshot
    /\ added = Untracked(EmptyDict)

\* stock = load_data("inventory.json"); an exception ends main()
MainLoad ==
    LET r == load_data(file)
    IN  /\ pc = "load"
        /\ stock' = r.data
        /\ call' = Call("load_data", NoItem, NoQty, FALSE, NoFault)
        /\ outcome' = Outcome(r.exc)
        /\ result' = IF r.exc = "none" THEN Returned("dict", r.data) ELSE None
        /\ pc' = IF r.exc = "none" THEN "add_apple" ELSE "crashed"
        /\ pre' = Snapshot
        /\ added' = Untracked(r.data)
        /\ UNCHANGED <<logs, file, runs>>

\* an add_item call of main(): at position at, going to next, or to handler
\* when it raises ValueError
MainAdd(at, item, qty, next, handler) ==
    LET r == add_item(stock, item, qty, NoLogs)
    IN  /\ pc = at
        /\ stock' = r.stock_data
        /\ call' = Call("add_item", item, qty, FALSE, NoFault)
        /\ outcome' = Outcome(r.exc)
        /\ result' = None
        /\ pc' = IF r.exc = "none" THEN next ELSE handler
        /\ pre' = Snapshot
        /\ added' = Track(r.stock_data, "add_item", item, qty, r.exc = "none")
        /\ UNCHANGED <<logs, file, runs>>

MainRemove(at, item, qty, next) ==
    LET r == remove_item(stock, item, qty)
    IN  /\ pc = at
        /\ stock' = r.stock_data
        /\ call' = Call("remove_item", item, qty, FALSE, NoFault)
        /\ outcome' = Outcome(r.exc)
        /\ result' = None
        /\ pc' = next
        /\ pre' = Snapshot
        /\ added' = Track(r.stock_data, "remove_item", item, qty, r.exc = "none")
        /\ UNCHANGED <<logs, file, runs>>

\* the three get_qty prints and the check_low_items print
MainReport ==
    /\ pc = "report"
    /\ call' = Call("get_qty", PyStr("banana"), NoQty, FALSE, NoFault)
    /\ outcome' = "ok"
    /\ result' = Returned("report",
                          [apple |-> get_qty(stock, PyStr("apple")),
                           banana |-> get_qty(stock, PyStr("banana")),
                           orange |-> get_qty(stock, PyStr("orange")),
                           low |-> check_low_items(stock, 15)])
    /\ pc' = "save"
    /\ pre' = Snapshot
    /\ UNCHANGED <<stock, logs, file, runs, added>>

MainSave(fault) ==
    LET r == save_data(stock, file, fault)
    IN  /\ pc = "save"
        /\ file' = r.file
        /\ call' = Call("save_data", NoItem, NoQty, FALSE, fault)
        /\ outcome' = Outcome(r.exc)
        /\ result' = None
        /\ pc' = "done"
        /\ pre' = Snapshot
        /\ UNCHANGED <<stock, logs, runs, added>>

\* the program is started again
MainRestart ==
    /\ pc = "done"
    /\ runs < MaxRuns
    /\ runs' = runs + 1
    /\ pc' = "load"
    /\ stock' = EmptyDict
    /\ call' = Call("none", NoItem, NoQty, FALSE, NoFault)
    /\ outcome' = "ok"
    /\ result' = None
    /\ pre' = [stock |-> EmptyDict, logs |-> logs]
    /\ added' = Untracked(EmptyDict)
    /\ UNCHANGED <<logs, file>>

MainNext ==
    \/ MainLoad
    \/ MainAdd("add_apple", PyStr("apple"), PyInt(10), "add_banana", "add_bad")
    \/ MainAdd("add_banana", PyStr("banana"), PyInt(20), "add_negative", "add_bad")
    \/ MainAdd("add_negative", PyStr("banana"), PyInt(-2), "add_bad", "add_bad")
    \/ MainAdd("add_bad", PyKey("123"), PyTen, "remove_apple", "remove_apple")
    \/ MainRemove("remove_apple", PyStr("apple"), PyInt(3), "remove_orange")
    \/ MainRemove("remove_orange", PyStr("orange"), PyInt(1), "remove_banana")
    \/ MainRemove("remove_banana", PyStr("banana"), PyInt(25), "report")
    \/ MainReport
    \/ \E fault \in SaveFaults(stock) : MainSave(fault)
    \/ MainRestart

MainSpec == MainInit /\ [][MainNext]_vars

----------------------------------------------------------------------------
(* Properties *)

Banana == PyStr("banana")
Apple == PyStr("apple")

\* what the documentation calls an invalid add: the item is empty or not a
\* string, or the quantity is not an integer, or it is negative
InvalidAddArgs(item, qty) ==
    \/ item.type # "str"
    \/ item = PyStr("")
    \/ qty.type \notin {"int", "bool"}
    \/ (qty.type \in {"int", "bool"} /\ qty.val < 0)

\* a quantity that is not an integer, or a negative integer
InvalidRemoveQty(qty) ==
    \/ qty.type \notin {"int", "bool"}
    \/ (qty.type \in {"int", "bool"} /\ qty.val < 0)

\* C1: in every state reached from the empty inventory by add_item and
\* remove_item calls, every entry of the inventory has a quantity above zero.
C1_NoEntryAtOrBelowZero == \A i \in 1 .. Len(stock) : stock[i].v > 0

\* C2: an add_item call with an invalid argument raises ValueError and leaves
\* the inventory and the log list as it found them.
C2_InvalidAddRaisesAndChangesNothing ==
    (call.op = "add_item" /\ InvalidAddArgs(call.item, call.qty))
        => (outcome = "ValueError" /\ stock = pre.stock /\ logs = pre.logs)

C2_Witness ==
    /\ call = Call("add_item", Apple, PyInt(-1), TRUE, NoFault)
    /\ outcome = "ValueError"
    /\ Len(pre.logs) = 1
    /\ DictHas(pre.stock, Apple)

\* C3: while an item has only had successful add_item calls since it was
\* absent, get_qty returns the sum of the quantities added; and a successful
\* add_item leaves every other item as it was.
C3_AddsAccumulate ==
    /\ \A k \in ItemNames :
          added[k].tracking => get_qty(stock, PyStr(k)) = added[k].total
    /\ (call.op = "add_item" /\ outcome = "ok") =>
          \A k \in ItemNames \ {call.item.repr} :
             /\ DictHas(stock, PyStr(k)) <=> DictHas(pre.stock, PyStr(k))
             /\ get_qty(stock, PyStr(k)) = get_qty(pre.stock, PyStr(k))

C3_Witness ==
    /\ call = Call("add_item", Apple, PyInt(1), FALSE, NoFault)
    /\ outcome = "ok"
    /\ get_qty(pre.stock, Apple) = 1
    /\ added["apple"].tracking
    /\ added["apple"].total = 2
    /\ get_qty(stock, Banana) = 1

\* C4: remove_item with a valid quantity on an item present with quantity c
\* deletes the entry when the quantity is at least c (get_qty then returns 0),
\* and otherwise keeps it with c less the quantity.
C4_RemoveDeletesOrDecrements ==
    (call.op = "remove_item" /\ ~InvalidRemoveQty(call.qty)
        /\ DictHas(pre.stock, call.item))
    => LET c == get_qty(pre.stock, call.item)
       IN  IF call.qty.val >= c
           THEN ~DictHas(stock, call.item) /\ get_qty(stock, call.item) = 0
           ELSE DictHas(stock, call.item) /\ get_qty(stock, call.item) = c - call.qty.val

C4_Witness ==
    /\ call = Call("remove_item", Apple, PyInt(1), FALSE, NoFault)
    /\ get_qty(pre.stock, Apple) = 1
    /\ ~DictHas(stock, Apple)
    /\ DictHas(stock, Banana)

\* C5: remove_item on an item that is not a key of the inventory raises
\* nothing and leaves the inventory as it found it, whatever the quantity.
C5_RemoveAbsentChangesNothing ==
    (call.op = "remove_item" /\ ~DictHas(pre.stock, call.item))
        => (outcome = "ok" /\ stock = pre.stock)

C5_Witness ==
    /\ call = Call("remove_item", Banana, PyInt(1), FALSE, NoFault)
    /\ ~DictHas(pre.stock, Banana)
    /\ DictHas(pre.stock, Apple)
    /\ outcome = "ok"

\* C6: remove_item with a quantity that is not an integer, or is negative,
\* raises nothing and leaves the inventory as it found it, whether or not the
\* item is present.
C6_InvalidRemoveChangesNothing ==
    (call.op = "remove_item" /\ InvalidRemoveQty(call.qty))
        => (outcome = "ok" /\ stock = pre.stock)

C6_Witness ==
    /\ call = Call("remove_item", Apple, PyInt(-1), FALSE, NoFault)
    /\ DictHas(pre.stock, Apple)
    /\ outcome = "ok"

\* C7: check_low_items returns each item whose quantity is strictly below the
\* threshold exactly once, returns no other item, and does not change the
\* inventory.
C7_LowItemsExact ==
    call.op = "check_low_items" =>
        /\ result.kind = "list"
        /\ {result.val[i] : i \in 1 .. Len(result.val)}
              = {k \in DictKeys(stock) : get_qty(stock, PyStr(k)) < call.qty.val}
        /\ \A i, j \in 1 .. Len(result.val) : result.val[i] = result.val[j] => i = j
        /\ stock = pre.stock

C7_Witness ==
    /\ call = Call("check_low_items", NoItem, PyInt(1), FALSE, NoFault)
    /\ result = Returned("list", <<"banana">>)
    /\ get_qty(stock, Apple) = 1
    /\ get_qty(stock, Banana) = 0
    /\ DictHas(stock, Banana)

\* C8: a load_data that follows a save_data whose write succeeded returns a
\* mapping with the keys and quantities of the inventory saved; and a
\* save_data whose write fails raises nothing and leaves the inventory as it was.
C8_SaveThenLoad ==
    [][ /\ (call.op = "save_data" /\ call.fault = NoFault /\ call'.op = "load_data")
            => /\ outcome' = "ok"
               /\ result'.kind = "dict"
               /\ Len(result'.val) = Len(stock)
               /\ DictMap(result'.val) = DictMap(stock)
        /\ (call'.op = "save_data" /\ call'.fault # NoFault)
            => (outcome' = "ok" /\ stock' = stock) ]_vars

C8_Witness ==
    /\ call.op = "load_data"
    /\ file = TextFile(json_dump(stock))
    /\ result = Returned("dict", stock)
    /\ get_qty(stock, Apple) = QtyStep
    /\ get_qty(stock, Banana) = 0
    /\ DictHas(stock, Banana)

\* a file that is missing, cannot be read, or does not hold JSON
Corrupt(f) ==
    \/ f.kind \in {"missing", "unreadable", "undecodable"}
    \/ (f.kind = "text" /\ ~json_load(f.text).ok)

\* C9: load_data on a file that is missing, holds malformed JSON or cannot be
\* read raises nothing and returns the empty mapping.
C9_CorruptFileLoadsEmpty ==
    (call.op = "load_data" /\ Corrupt(file))
        => (outcome = "ok" /\ result = Returned("dict", EmptyDict))

\* C10: whatever inventory main() loaded, once it has made its remove_item
\* calls there is no banana entry and get_qty of banana is 0, in the first run
\* and in every later one.
C10_BananaGoneAfterMain ==
    pc \in {"report", "save", "done"}
        => (~DictHas(stock, Banana) /\ get_qty(stock, Banana) = 0)

====
